---- MODULE Spec2Model ----
(***************************************************************************)
(* The DRS tree scan of esgprep: the per-file worker of                    *)
(* src/esgprep/drs/make.py (Process.__call__), the per-file worker and the *)
(* coordinator of src/esgprep/drs/main.py (process, run), and the          *)
(* duplicate detection both workers run against the latest version.        *)
(***************************************************************************)
EXTENDS Integers, Sequences, FiniteSets, TLC

(***************************************************************************)
(* Bounds of the model.                                                    *)
(***************************************************************************)
\* Version stamps are 1..NumVersions (the integer after the 'v').
NumVersions == 3
\* Tracking identifiers are 1..NumTrackingIds; NoTrackingId is "absent".
NumTrackingIds == 2
\* File sizes are 1..NumSizes.
NumSizes == 2
\* Content digests are 1..NumDigests.
NumDigests == 2

Versions == 1..NumVersions
\* latest_version = 'Initial': no latest version was looked at.
Initial == 0
\* get_tracking_id returns None when the file exposes no tracking identifier.
NoTrackingId == 0
TrackingIds == {NoTrackingId} \cup (1..NumTrackingIds)
\* current_path.stat() raises when the path is not on disk.
NoSuchFile == 0
Sizes == 1..NumSizes
Digests == 1..NumDigests

(***************************************************************************)
(* Duplicate detection.  The inputs of one detection: what the worker      *)
(* reads from its configuration, from the incoming file and from the       *)
(* latest version on disk.                                                 *)
(*   cur_v        the version of the run (tree.drs_version, TREE_VERSION)  *)
(*   lat_v        the latest version of the dataset on disk, Initial if    *)
(*                the dataset has none                                     *)
(*   exists       the latest version holds a file of the same name        *)
(*   cur_tid, lat_tid    tracking identifiers                              *)
(*   cur_size, lat_size  st_size; cur_size = NoSuchFile: stat raises       *)
(*   cur_sum, lat_sum    content digests                                   *)
(*   no_checksum  checksumming disabled by configuration                   *)
(***************************************************************************)
DetectInputs ==
    { i \in [cur_v : Versions, lat_v : {Initial} \cup Versions, exists : BOOLEAN,
             cur_tid : TrackingIds, lat_tid : TrackingIds,
             cur_size : {NoSuchFile} \cup Sizes, lat_size : Sizes,
             cur_sum : Digests, lat_sum : Digests,
             no_checksum : BOOLEAN] :
        i.exists => i.lat_v # Initial }

\* The outcome of one detection: the exception it raised ("none" if none),
\* the is_duplicate flag, the latest_version local, and the comparisons made.
Outcome(exc, dup, latest, steps) ==
    [exc |-> exc, is_duplicate |-> dup, latest_version |-> latest, steps |-> steps]

\* make.py:152 -- the comparison that raises OlderUpgrade.
OlderUpgradeRaised(current_version, latest_version) ==
    latest_version < current_version

\* make.py:161 -- None == None is true in Python: two absent identifiers match.
TrackingIdsMatch(current_tracking_id, latest_tracking_id) ==
    current_tracking_id = latest_tracking_id

\* make.py:164 -- sizes equal and checksumming enabled, in one condition.
SizesGate(current_size, latest_size, no_checksum) ==
    current_size = latest_size /\ ~no_checksum

\* make.py:175, 180 -- "current_tracking_id and latest_tracking_id": both truthy.
BothTrackingIds(current_tracking_id, latest_tracking_id) ==
    current_tracking_id # NoTrackingId /\ latest_tracking_id # NoTrackingId

\* make.py:140-181.
DetectMake(i) ==
    IF ~i.exists
    THEN Outcome("none", FALSE, Initial, <<"exists">>)
    ELSE IF OlderUpgradeRaised(i.cur_v, i.lat_v)
    THEN Outcome("OlderUpgrade", FALSE, i.lat_v, <<"exists", "version">>)
    ELSE IF ~TrackingIdsMatch(i.cur_tid, i.lat_tid)
    THEN Outcome("none", FALSE, i.lat_v, <<"exists", "version", "tid">>)
    ELSE IF i.cur_size = NoSuchFile
    THEN Outcome("Exception", FALSE, i.lat_v, <<"exists", "version", "tid">>)
    ELSE IF SizesGate(i.cur_size, i.lat_size, i.no_checksum)
    THEN IF i.cur_sum = i.lat_sum
         THEN Outcome("none", TRUE, i.lat_v,
                      <<"exists", "version", "tid", "size", "digest">>)
         ELSE IF BothTrackingIds(i.cur_tid, i.lat_tid)
         THEN Outcome("UnchangedTrackingID", FALSE, i.lat_v,
                      <<"exists", "version", "tid", "size", "digest">>)
         ELSE Outcome("none", FALSE, i.lat_v,
                      <<"exists", "version", "tid", "size", "digest">>)
    ELSE IF BothTrackingIds(i.cur_tid, i.lat_tid)
    THEN Outcome("UnchangedTrackingID", FALSE, i.lat_v,
                 <<"exists", "version", "tid", "size">>)
    ELSE Outcome("none", FALSE, i.lat_v, <<"exists", "version", "tid", "size">>)

\* main.py:66 -- int(TREE_VERSION[1:]) <= int(v_latest[1:]).
OlderUpgradeRaisedMain(tree_version, v_latest) ==
    tree_version <= v_latest

\* main.py:63-86.  The latest version is 'Initial' in the record when the
\* dataset has none (main.py:153).
DetectMain(i) ==
    IF i.lat_v = Initial
    THEN Outcome("none", FALSE, Initial, <<>>)
    ELSE IF OlderUpgradeRaisedMain(i.cur_v, i.lat_v)
    THEN Outcome("OlderUpgrade", FALSE, i.lat_v, <<"version">>)
    ELSE IF ~i.exists
    THEN Outcome("none", FALSE, i.lat_v, <<"version", "exists">>)
    ELSE Outcome("none", i.cur_sum = i.lat_sum, i.lat_v,
                 <<"version", "exists", "digest">>)

\* The detection of the worker the pool maps over the sources.
Detect(worker, i) ==
    IF worker = "make" THEN DetectMake(i) ELSE DetectMain(i)

(***************************************************************************)
(* The run: its sources, its configuration, the latest version on disk.    *)
(***************************************************************************)
\* The incoming batch (source.name of each source the pool maps).
Sources == {"a.nc", "b.nc"}
\* Filenames a latest version may hold; "c.nc" is in no incoming batch.
Names == Sources \cup {"c.nc"}
\* Dataset addresses without version (get_drs_up(current_path).parent).
Datasets == {"d1", "d2"}
\* drs_path returns None: Path(...) raises TypeError.
Invalid == "invalid"
\* The link modes a run may be configured with (keys of UNIX_COMMAND).
Modes == {"move", "copy"}
\* The version of the latest version folder on disk, when there is one.
PriorVersion == 2

\* Paths, as records of one shape.
NoPath == [kind |-> "none", ds |-> "", ver |-> 0, name |-> ""]
\* source: the incoming file.
Incoming(n) == [kind |-> "incoming", ds |-> "", ver |-> 0, name |-> n]
\* current_path: Path(root, drs_path(...), source.name).
CurrentPath(d, v, n) == [kind |-> "drs", ds |-> d, ver |-> v, name |-> n]
\* '../files/<version>/<name>': a relative path into the files folder.
RelFiles(v, n) == [kind |-> "relfiles", ds |-> "", ver |-> v, name |-> n]
\* The name of a version folder.
VersionName(v) == [kind |-> "version", ds |-> "", ver |-> v, name |-> ""]

\* A dataset with no version on disk, and the latest versions the model tries.
Fresh == [version |-> Initial, files |-> {}]
DiskStates ==
    {Fresh} \cup { [version |-> PriorVersion, files |-> s] :
                     s \in {{"a.nc", "c.nc"}, {"a.nc", "b.nc", "c.nc"}} }

Configs ==
    [drs_version : Versions, no_checksum : BOOLEAN, upgrade_from_latest : BOOLEAN,
     mode : Modes, ignore_from_incoming : {{}, {"b.nc"}},
     ignore_from_latest : {{}, {"c.nc"}}]

(***************************************************************************)
(* The Tree: leaves keyed by (node path, leaf name), duplicates, paths.    *)
(***************************************************************************)
VersionKey(d, n) == <<d, "version", n>>
LatestKey(d) == <<d, "latest", "latest">>
FilesKey(d, n) == <<d, "files", n>>

\* The tree holds a leaf for the keys in its domain only.
EmptyTree == [k \in {} |-> NoPath]
Leaf(src, mode) == [src |-> src, mode |-> mode]

\* A create_leaf that overwrites the leaf whatever force is.
CreateLeafOverwrite(tree, key, src, mode, force) ==
    [k \in DOMAIN tree \cup {key} |-> IF k = key THEN Leaf(src, mode) ELSE tree[k]]

\* Tree.create_leaf(nodes, label, src, mode, force=False).
CreateLeaf(tree, key, src, mode, force) ==
    IF key \notin DOMAIN tree \/ force
    THEN [k \in DOMAIN tree \cup {key} |->
            IF k = key THEN Leaf(src, mode) ELSE tree[k]]
    ELSE tree

\* One create_leaf call, as a worker made it.
Call(key, src, mode, force) ==
    [key |-> key, src |-> src, mode |-> mode, force |-> force]

\* tree.paths[key]: absent, or {} ("empty"), or with 'files' only ("files"),
\* or complete ("full").
NoEntry == [state |-> "absent", files |-> <<>>, latest |-> Initial]
EmptyPaths == [d \in Datasets |-> NoEntry]

VARIABLES
    worker,       \* "make": Process.__call__ of make.py; "main": process of main.py
    cfg,          \* the processing context's configuration
    disk,         \* per dataset, the latest version on disk
    facets,       \* per source, the dataset its attributes resolve to, or Invalid
    use_pool,     \* ctx.use_pool: a pool of workers, or one source after the other
    dataset,      \* the dataset address a version is removed from
    pc,           \* per source, the position of its call
    loc,          \* per source, the locals of its call
    raised,       \* per source, the exception raised in its call ("none" if none)
    queued,       \* per source, the create_leaf calls it made, in order
    results,      \* per source, what its call returned
    leaves,       \* tree: the leaves queued
    duplicates,   \* tree.duplicates
    paths,        \* tree.paths
    lock,         \* ctx.lock: "free" or the source whose call holds it
    errors,       \* ctx.errors.value
    progress,     \* ctx.progress.value (pbar in main.py)
    msg_length,   \* ctx.msg_length.value
    phase,        \* the position of run
    scan_files,   \* ctx.scan_files
    scan_errors,  \* ctx.scan_errors
    inp,          \* the inputs of the detection under check
    out,          \* its outcome
    scan,         \* ctx.scan: this invocation of run scans the sources
    invocation,   \* the number of this invocation of run
    checkpoint,   \* the contents of TREE_FILE
    stores,       \* the number of store(TREE_FILE, ...) calls of this invocation
    acted,        \* the tree the action of this invocation ran on, if it ran
    verdict,      \* what evaluate(results) answered in this invocation
    commands_file,  \* tree.commands_file
    scan_err_log  \* ctx.scan_err_log

envVars == <<worker, cfg, disk, facets, use_pool, dataset>>
fileVars == <<pc, loc, raised, queued, results>>
treeVars == <<leaves, duplicates, paths>>
ctxVars == <<lock, errors, progress, msg_length>>
runVars == <<phase, scan_files, scan_errors>>
detVars == <<inp, out>>
invVars == <<scan, invocation, checkpoint, stores, acted, verdict, commands_file,
             scan_err_log>>
vars == <<envVars, fileVars, treeVars, ctxVars, runVars, detVars, invVars>>

Free == "free"
Pending == "pending"
NoLocals == [is_duplicate |-> FALSE, latest_version |-> Initial, todo |-> {},
             ret |-> Pending]
NoOutcome == Outcome(Pending, FALSE, Initial, <<>>)
NoInput == [cur_v |-> 1, lat_v |-> Initial, exists |-> FALSE,
            cur_tid |-> NoTrackingId, lat_tid |-> NoTrackingId,
            cur_size |-> 1, lat_size |-> 1, cur_sum |-> 1, lat_sum |-> 1,
            no_checksum |-> FALSE]

\* TREE_FILE does not exist.
NoCheckpoint == <<>>
\* The action of the invocation has not run.
NoAction == [ran |-> FALSE]

\* A dataset address with no version: no symlink, no content, no "latest";
\* removed is the version the last step removed (Initial if it removed none).
NoDataset == [links |-> <<>>, files |-> {}, latest |-> Initial, removed |-> Initial]

\* The state before any source is processed.
Idle ==
    /\ pc = [f \in Sources |-> "start"]
    /\ loc = [f \in Sources |-> NoLocals]
    /\ raised = [f \in Sources |-> "none"]
    /\ queued = [f \in Sources |-> <<>>]
    /\ results = [f \in Sources |-> Pending]
    /\ leaves = EmptyTree
    /\ duplicates = <<>>
    /\ paths = EmptyPaths
    /\ lock = Free
    /\ errors = 0
    /\ progress = 0
    /\ msg_length = 0
    /\ phase = "scan"
    /\ scan_files = 0
    /\ scan_errors = 0
    /\ scan = TRUE
    /\ invocation = 1
    /\ checkpoint = NoCheckpoint
    /\ stores = 0
    /\ acted = NoAction
    /\ verdict = Pending
    /\ commands_file = "cmd1"
    /\ scan_err_log = "log1"

(***************************************************************************)
(* The detection alone: its inputs are drawn, then it is applied.          *)
(***************************************************************************)
InitDetect ==
    /\ worker \in {"make", "main"}
    /\ cfg = [drs_version |-> 1, no_checksum |-> FALSE, upgrade_from_latest |-> FALSE,
              mode |-> "move", ignore_from_incoming |-> {}, ignore_from_latest |-> {}]
    /\ disk = [d \in Datasets |-> Fresh]
    /\ facets = [f \in Sources |-> "d1"]
    /\ use_pool = TRUE
    /\ dataset = NoDataset
    /\ Idle
    /\ inp \in DetectInputs
    /\ out = NoOutcome

RunDetect ==
    /\ out = NoOutcome
    /\ out' = Detect(worker, inp)
    /\ UNCHANGED <<envVars, fileVars, treeVars, ctxVars, runVars, inp, invVars>>

NextDetect == RunDetect

SpecDetect == InitDetect /\ [][NextDetect]_vars

(***************************************************************************)
(* The scan: one call of the worker per source, under any interleaving.    *)
(***************************************************************************)
\* A setting no statement of the run reads is left at its default: the
\* ignore-from-latest list is read in main.py's walk of an existing latest
\* version under upgrade-from-latest only, no_checksum in make.py's detection
\* against an existing latest version only, and the facets of an ignored
\* source are never resolved.
Init ==
    /\ worker \in {"make", "main"}
    /\ \E s \in DiskStates : disk = [d \in Datasets |-> IF d = "d1" THEN s ELSE Fresh]
    /\ cfg \in Configs
    /\ cfg.ignore_from_latest # {} =>
          (worker = "main" /\ cfg.upgrade_from_latest /\ disk["d1"] # Fresh)
    /\ cfg.no_checksum => (worker = "make" /\ disk["d1"] # Fresh)
    /\ \E d \in Datasets \cup {Invalid} :
          /\ "b.nc" \in cfg.ignore_from_incoming => d = "d1"
          /\ facets = [f \in Sources |-> IF f = "b.nc" THEN d ELSE "d1"]
    /\ use_pool \in BOOLEAN
    /\ dataset = NoDataset
    /\ Idle
    /\ inp = NoInput
    /\ out = NoOutcome

\* The inputs the detection of source f can read in this run.
InputsOf(f) ==
    [cur_v : {cfg.drs_version}, lat_v : {disk[facets[f]].version},
     exists : {f \in disk[facets[f]].files},
     cur_tid : TrackingIds, lat_tid : TrackingIds,
     cur_size : {NoSuchFile} \cup Sizes, lat_size : Sizes,
     cur_sum : Digests, lat_sum : Digests,
     no_checksum : {cfg.no_checksum}]

\* make.py:112, main.py:45.
Ignored(f) == f \in cfg.ignore_from_incoming

\* A worker that never raises DuplicatedFile.
DuplicateNeverForbidden(upgrade_from_latest) == FALSE

\* make.py:240, main.py:130 -- a duplicate raises DuplicatedFile.
DuplicateForbidden(upgrade_from_latest) == upgrade_from_latest

\* A worker whose except clauses let OlderUpgrade through.
PropagatesOlderUpgrade(exc) == exc \in {"KeyboardInterrupt", "OlderUpgrade"}

\* make.py:278-303, main.py:161-165 -- the exceptions that leave the call.
Propagates(exc) == exc = "KeyboardInterrupt"

\* The call of f goes to position p with locals l.
Goto(f, p, l) ==
    /\ pc' = [pc EXCEPT ![f] = p]
    /\ loc' = [loc EXCEPT ![f] = l]

\* The call of f raises exc: control goes to the except clauses.
Raise(f, exc) ==
    /\ raised' = [raised EXCEPT ![f] = exc]
    /\ pc' = [pc EXCEPT ![f] = "except"]

\* main.py:229 -- itertools.imap calls process for the sources in their order.
Earlier(f) == IF f = "b.nc" THEN {"a.nc"} ELSE {}

\* main.py:219-229 -- the pool's workers take the sources as they come free;
\* without a pool a source is processed when the sources before it are done.
Dispatched(f) ==
    use_pool \/ \A g \in Earlier(f) : pc[g] = "done"

\* make.py:111-187 and 236-241, main.py:43-88 and 127-133: from the entry of
\* the call to the first access to the tree.
Scan(f) ==
    /\ phase = "scan"
    /\ pc[f] = "start"
    /\ Dispatched(f)
    /\ UNCHANGED <<envVars, queued, results, treeVars, ctxVars, runVars, detVars,
                   invVars>>
    /\ IF Ignored(f)
       THEN \* make.py prints under the lock and returns None; main.py returns False.
            /\ Goto(f, IF worker = "make" THEN "skip" ELSE "finally",
                    [loc[f] EXCEPT !.ret = IF worker = "make" THEN "None" ELSE "False"])
            /\ UNCHANGED raised
       ELSE IF facets[f] = Invalid
       THEN \* make.py:136 returns False; main.py has no clause for it.
            IF worker = "make"
            THEN /\ Goto(f, "finally", [loc[f] EXCEPT !.ret = "False"])
                 /\ UNCHANGED raised
            ELSE /\ Raise(f, "Exception")
                 /\ UNCHANGED loc
       ELSE \E o \in {Detect(worker, i) : i \in InputsOf(f)} :
               LET l == [loc[f] EXCEPT !.is_duplicate = o.is_duplicate,
                                       !.latest_version = o.latest_version]
               IN  IF o.exc # "none"
                   THEN /\ Raise(f, o.exc)
                        /\ loc' = [loc EXCEPT ![f] = l]
                   ELSE IF ~o.is_duplicate
                   THEN /\ Goto(f, "leaf_a", l)
                        /\ UNCHANGED raised
                   ELSE IF DuplicateForbidden(cfg.upgrade_from_latest)
                   THEN /\ Raise(f, "DuplicatedFile")
                        /\ loc' = [loc EXCEPT ![f] = l]
                   ELSE /\ Goto(f, "dup_leaf", l)
                        /\ UNCHANGED raised

\* The positions inside the try block, where an interrupt can arrive.
TryPositions ==
    {"start", "skip", "skip_locked", "leaf_a", "leaf_b", "leaf_c", "walk", "dup_leaf",
     "dup_append", "paths_check", "paths_new", "paths_files", "paths_latest",
     "paths_append", "paths_assert"}

\* A KeyboardInterrupt arrives in the call of f.
Interrupt(f) ==
    /\ phase = "scan"
    /\ pc[f] \in TryPositions
    /\ Raise(f, "KeyboardInterrupt")
    \* The with statement releases the lock the call holds.
    /\ lock' = IF lock = f THEN Free ELSE lock
    /\ UNCHANGED <<envVars, loc, queued, results, treeVars, errors, progress,
                   msg_length, runVars, detVars,
                   invVars>>

\* "with self.lock:" -- make.py:114, 281, 292, 308.
Acquire(f) ==
    /\ worker = "make"
    /\ pc[f] \in {"skip", "except", "finally"}
    /\ lock = Free
    /\ lock' = f
    /\ pc' = [pc EXCEPT ![f] = IF pc[f] = "skip" THEN "skip_locked"
                               ELSE IF pc[f] = "except" THEN "except_locked"
                               ELSE "finally_locked"]
    /\ UNCHANGED <<envVars, loc, raised, queued, results, treeVars, errors, progress,
                   msg_length, runVars, detVars,
                   invVars>>

\* make.py:113-116 -- the skip of an ignored source is printed, None returned.
SkipPrint(f) ==
    /\ pc[f] = "skip_locked"
    /\ lock = f
    /\ lock' = Free
    /\ pc' = [pc EXCEPT ![f] = "finally"]
    /\ UNCHANGED <<envVars, loc, raised, queued, results, treeVars, errors, progress,
                   msg_length, runVars, detVars,
                   invVars>>

\* The create_leaf call c of source f: the tree takes it, the call is logged.
\* Concurrent create_leaf calls are serialized by the mutex guarding the tree:
\* the call takes the mutex for its duration, so it runs when the mutex is free.
Queue(f, c) ==
    /\ lock = Free
    /\ leaves' = CreateLeaf(leaves, c.key, c.src, c.mode, c.force)
    /\ queued' = [queued EXCEPT ![f] = Append(@, c)]

\* make.py:189-197 (force=True), main.py:89-98 -- the symlink in the version
\* folder, a relative path into the files folder.
VersionLeaf(f) ==
    Call(VersionKey(facets[f], f), RelFiles(cfg.drs_version, f), "symlink",
         worker = "make")

\* A worker that points "latest" at the latest version it found on disk.
LatestLeafToLatestVersion(f) ==
    Call(LatestKey(facets[f]), VersionName(loc[f].latest_version), "symlink", FALSE)

\* make.py:199-205, main.py:99-104 -- the dataset's "latest" symlink.
LatestLeaf(f) ==
    Call(LatestKey(facets[f]), VersionName(cfg.drs_version), "symlink", FALSE)

\* make.py:207-211 (src=current_path), main.py:105-110 (src=fh.ffp) -- the
\* file in the files folder, in the link mode of the run.
FilesLeaf(f) ==
    Call(FilesKey(facets[f], f),
         IF worker = "make" THEN CurrentPath(facets[f], cfg.drs_version, f)
         ELSE Incoming(f),
         cfg.mode, FALSE)

\* make.py:218 walks latest_path, the path of the same-named file of the
\* latest version (it is stat-ed and readlink-ed as a file): os.walk of a path
\* that is no directory yields nothing.  main.py:114 walks the folder of the
\* latest version.
WalkLatest(f) ==
    IF worker = "make" THEN {} ELSE disk[facets[f]].files

\* make.py:214-226, main.py:111-119 -- the filenames to copy forward.
CopyForward(f) ==
    IF cfg.upgrade_from_latest
    THEN {n \in WalkLatest(f) : n # f /\ n \notin cfg.ignore_from_latest}
    ELSE {}

\* make.py:227-232, main.py:120-126 -- os.readlink of a file of the latest
\* version: the files folder of that version.
CopyLeaf(f, n) ==
    Call(VersionKey(facets[f], n), RelFiles(disk[facets[f]].version, n), "symlink",
         FALSE)

\* A worker that queues the incoming file of a duplicate like a new file.
DuplicateLeafFromIncoming(f) ==
    Call(FilesKey(facets[f], f), Incoming(f), cfg.mode, FALSE)

\* make.py:249-253, main.py:140-146 -- a duplicate is linked to the target of
\* the latest version's symlink.
DuplicateLeaf(f) ==
    Call(VersionKey(facets[f], f), RelFiles(disk[facets[f]].version, f), "symlink",
         FALSE)

LeafA(f) ==
    /\ pc[f] = "leaf_a"
    /\ Queue(f, VersionLeaf(f))
    /\ pc' = [pc EXCEPT ![f] = "leaf_b"]
    /\ UNCHANGED <<envVars, loc, raised, results, duplicates, paths, ctxVars, runVars,
                   detVars,
                   invVars>>

LeafB(f) ==
    /\ pc[f] = "leaf_b"
    /\ Queue(f, LatestLeaf(f))
    /\ pc' = [pc EXCEPT ![f] = "leaf_c"]
    /\ UNCHANGED <<envVars, loc, raised, results, duplicates, paths, ctxVars, runVars,
                   detVars,
                   invVars>>

LeafC(f) ==
    /\ pc[f] = "leaf_c"
    /\ Queue(f, FilesLeaf(f))
    /\ Goto(f, IF CopyForward(f) = {} THEN "paths_check" ELSE "walk",
            [loc[f] EXCEPT !.todo = CopyForward(f)])
    /\ UNCHANGED <<envVars, raised, results, duplicates, paths, ctxVars, runVars,
                   detVars,
                   invVars>>

\* One turn of the loop over the files of the latest version.
Walk(f) ==
    /\ pc[f] = "walk"
    /\ \E n \in loc[f].todo :
          /\ Queue(f, CopyLeaf(f, n))
          /\ Goto(f, IF loc[f].todo = {n} THEN "paths_check" ELSE "walk",
                  [loc[f] EXCEPT !.todo = @ \ {n}])
    /\ UNCHANGED <<envVars, raised, results, duplicates, paths, ctxVars, runVars,
                   detVars,
                   invVars>>

DupLeaf(f) ==
    /\ pc[f] = "dup_leaf"
    /\ Queue(f, DuplicateLeaf(f))
    /\ pc' = [pc EXCEPT ![f] = IF cfg.mode = "move" THEN "dup_append"
                               ELSE "paths_check"]
    /\ UNCHANGED <<envVars, loc, raised, results, duplicates, paths, ctxVars, runVars,
                   detVars,
                   invVars>>

\* make.py:254-255, main.py:147-148.
DupAppend(f) ==
    /\ pc[f] = "dup_append"
    /\ duplicates' = Append(duplicates, Incoming(f))
    /\ pc' = [pc EXCEPT ![f] = "paths_check"]
    /\ UNCHANGED <<envVars, loc, raised, queued, results, leaves, paths, ctxVars,
                   runVars, detVars,
                   invVars>>

\* make.py:258-260, main.py:150-154 -- the entry recorded for the source.
Record(f) ==
    IF worker = "make"
    THEN [src |-> Incoming(f), dst |-> CurrentPath(facets[f], cfg.drs_version, f),
          is_duplicate |-> loc[f].is_duplicate]
    ELSE [src |-> Incoming(f), dst |-> CurrentPath(facets[f], cfg.drs_version, f),
          filename |-> f, latest |-> loc[f].latest_version]

\* make.py:262, main.py:155 -- "key in self.tree.paths".
PathsCheck(f) ==
    /\ pc[f] = "paths_check"
    /\ pc' = [pc EXCEPT ![f] = IF paths[facets[f]].state # "absent"
                               THEN "paths_append" ELSE "paths_new"]
    /\ UNCHANGED <<envVars, loc, raised, queued, results, treeVars, ctxVars, runVars,
                   detVars,
                   invVars>>

\* make.py:266 -- paths[key] = {};  main.py:158 -- paths[key] = [incoming].
PathsNew(f) ==
    /\ pc[f] = "paths_new"
    /\ IF worker = "make"
       THEN /\ paths' = [paths EXCEPT ![facets[f]] =
                           [state |-> "empty", files |-> <<>>, latest |-> Initial]]
            /\ Goto(f, "paths_files", loc[f])
       ELSE /\ paths' = [paths EXCEPT ![facets[f]] =
                           [state |-> "full", files |-> <<Record(f)>>,
                            latest |-> Initial]]
            /\ Goto(f, "finally", [loc[f] EXCEPT !.ret = "True"])
    /\ UNCHANGED <<envVars, raised, queued, results, leaves, duplicates, ctxVars,
                   runVars, detVars,
                   invVars>>

\* make.py:267 -- paths[key]['files'] = [record]; KeyError without the key.
PathsFiles(f) ==
    /\ pc[f] = "paths_files"
    /\ IF paths[facets[f]].state = "absent"
       THEN /\ Raise(f, "Exception")
            /\ UNCHANGED paths
       ELSE /\ paths' = [paths EXCEPT ![facets[f]] =
                           [@ EXCEPT !.state = IF @ = "empty" THEN "files" ELSE @,
                                     !.files = <<Record(f)>>]]
            /\ pc' = [pc EXCEPT ![f] = "paths_latest"]
            /\ UNCHANGED raised
    /\ UNCHANGED <<envVars, loc, queued, results, leaves, duplicates, ctxVars, runVars,
                   detVars,
                   invVars>>

\* make.py:268 -- paths[key]['latest'] = latest_version, then True is returned.
PathsLatest(f) ==
    /\ pc[f] = "paths_latest"
    /\ paths' = [paths EXCEPT ![facets[f]] =
                    [@ EXCEPT !.state = IF @ = "files" THEN "full" ELSE @,
                              !.latest = loc[f].latest_version]]
    /\ Goto(f, "finally", [loc[f] EXCEPT !.ret = "True"])
    /\ UNCHANGED <<envVars, raised, queued, results, leaves, duplicates, ctxVars,
                   runVars, detVars,
                   invVars>>

\* make.py:263 -- paths[key]['files'].append(record), KeyError when the entry
\* has no 'files' yet;  main.py:156 -- paths[key].append(incoming).
PathsAppend(f) ==
    /\ pc[f] = "paths_append"
    /\ IF paths[facets[f]].state = "empty"
       THEN /\ Raise(f, "Exception")
            /\ UNCHANGED <<paths, loc>>
       ELSE /\ paths' = [paths EXCEPT ![facets[f]].files = Append(@, Record(f))]
            /\ IF worker = "make"
               THEN Goto(f, "paths_assert", loc[f])
               ELSE Goto(f, "finally", [loc[f] EXCEPT !.ret = "True"])
            /\ UNCHANGED raised
    /\ UNCHANGED <<envVars, queued, results, leaves, duplicates, ctxVars, runVars,
                   detVars,
                   invVars>>

\* make.py:264 -- assert latest_version == paths[key]['latest'], KeyError
\* when the entry has no 'latest' yet; then True is returned.
PathsAssert(f) ==
    /\ pc[f] = "paths_assert"
    /\ IF paths[facets[f]].state # "full"
       THEN /\ Raise(f, "Exception")
            /\ UNCHANGED loc
       ELSE IF loc[f].latest_version # paths[facets[f]].latest
       THEN /\ Raise(f, "AssertionError")
            /\ UNCHANGED loc
       ELSE /\ Goto(f, "finally", [loc[f] EXCEPT !.ret = "True"])
            /\ UNCHANGED raised
    /\ UNCHANGED <<envVars, queued, results, treeVars, ctxVars, runVars, detVars,
                   invVars>>

\* A counter that loses the increment.
IncreaseLost(value) == value

\* make.py:284, 295, 311 -- "value += 1" with the lock held;  main.py:168 --
\* pbar.update().
Increase(value) == value + 1

\* make.py:278-303 -- under the lock the error counter is increased; a
\* KeyboardInterrupt is raised again, any other exception gives None.
Except(f) ==
    /\ pc[f] = "except_locked"
    /\ lock = f
    /\ errors' = Increase(errors)
    /\ lock' = Free
    /\ Goto(f, "finally",
            [loc[f] EXCEPT !.ret = IF Propagates(raised[f]) THEN "raise" ELSE "None"])
    /\ UNCHANGED <<envVars, raised, queued, results, treeVars, progress, msg_length,
                   runVars, detVars,
                   invVars>>

\* main.py:161-165.
ExceptMain(f) ==
    /\ worker = "main"
    /\ pc[f] = "except"
    /\ Goto(f, "finally",
            [loc[f] EXCEPT !.ret = IF Propagates(raised[f]) THEN "raise" ELSE "None"])
    /\ UNCHANGED <<envVars, raised, queued, results, treeVars, ctxVars, runVars,
                   detVars,
                   invVars>>

\* len(str(source)): both sources have four characters.
SourceLength(f) == IF f \in Sources THEN 4 ELSE 0

\* make.py:318-324 -- '\r{} {} {}' of the spinner description (19 characters),
\* one frame and the source.
MsgLength(f) == 23 + SourceLength(f)

\* The call of f ends: its value or its exception goes to the results.
\* main.py:229-231 -- without a pool the exception leaves the list
\* comprehension, and run, at once;  main.py:223-226 -- with a pool run waits
\* in pool.join() for every source, whatever the calls raise.
Return(f) ==
    /\ results' = [results EXCEPT ![f] = loc[f].ret]
    /\ phase' = IF loc[f].ret = "raise" /\ ~use_pool THEN "aborted" ELSE phase
    /\ pc' = [pc EXCEPT ![f] = "done"]

\* make.py:305-324 -- under the lock the progress counter is increased and the
\* message length set.
Finally(f) ==
    /\ pc[f] = "finally_locked"
    /\ lock = f
    /\ progress' = Increase(progress)
    /\ msg_length' = MsgLength(f)
    /\ lock' = Free
    /\ Return(f)
    /\ UNCHANGED <<envVars, loc, raised, queued, treeVars, errors, scan_files,
                   scan_errors, detVars,
                   invVars>>

\* main.py:166-168 -- pbar.update().
FinallyMain(f) ==
    /\ worker = "main"
    /\ pc[f] = "finally"
    /\ progress' = Increase(progress)
    /\ Return(f)
    /\ UNCHANGED <<envVars, loc, raised, queued, treeVars, lock, errors, msg_length,
                   scan_files, scan_errors, detVars,
                   invVars>>

\* main.py:238 -- results.count(None).
CountNone(res) == Cardinality({f \in Sources : res[f] = "None"})

\* main.py:231 -- results = [x for x in processes]: every source has its result.
Joined == \A f \in Sources : pc[f] = "done"

\* main.py:231-238 -- every call has returned: the results are read, an
\* exception among them is raised in run, else the results are counted.
Collect ==
    /\ phase = "scan"
    /\ Joined
    /\ IF \E f \in Sources : results[f] = "raise"
       THEN /\ phase' = "aborted"
            /\ UNCHANGED <<scan_files, scan_errors>>
       ELSE /\ scan_files' = Cardinality(Sources)
            /\ scan_errors' = CountNone(results)
            /\ phase' = "counted"
    /\ UNCHANGED <<envVars, fileVars, treeVars, ctxVars, detVars, invVars>>

\* The controlled arguments of the invocation (CONTROLLED_ARGS, main.py:240).
ControlledArgs == cfg

\* cctx['tree'] as one value: what store pickles at main.py:241.
TheTree ==
    [leaves |-> leaves, duplicates |-> duplicates, paths |-> paths,
     commands_file |-> commands_file]

\* main.py:240-243 -- the data given to store, in its order.
StoredData == <<ControlledArgs, TheTree, scan_err_log, results>>

\* main.py:240-244 -- store(TREE_FILE, data=[...]).
Store ==
    /\ phase = "counted"
    /\ checkpoint' = StoredData
    /\ stores' = stores + 1
    /\ phase' = "stored"
    /\ UNCHANGED <<envVars, fileVars, treeVars, ctxVars, scan_files, scan_errors,
                   detVars, scan, invocation, acted, verdict, commands_file,
                   scan_err_log>>

\* The main.py:246 test with the gate left open.
GateOpen(v) == TRUE

\* main.py:246 -- "if evaluate(results):".
Gate(v) == v = "accept"

\* The action starts before the checkpoint is written.
StoredOrCounted(ph) == ph \in {"counted", "stored"}

\* main.py:240-246 -- evaluate is called after store has returned.
StoreDone(ph) == ph = "stored"

\* evaluate(results): the answers it can give for these results, under the
\* acceptance condition the run is configured with.
Verdicts(res) == {"accept", "reject"}

\* main.py:246 -- evaluate(results) answers; run goes on to the action or ends.
Evaluate ==
    /\ StoreDone(phase)
    /\ verdict = Pending
    /\ \E v \in Verdicts(results) :
          /\ verdict' = v
          /\ phase' = IF Gate(v) THEN "action" ELSE "done"
    /\ UNCHANGED <<envVars, fileVars, treeVars, ctxVars, scan_files, scan_errors,
                   detVars, scan, invocation, checkpoint, stores, acted,
                   commands_file, scan_err_log>>

\* main.py:247-252 -- check_uniqueness, get_display_lengths and the action of
\* the command line run on the tree.
Act ==
    /\ phase = "action"
    /\ acted' = [ran |-> TRUE, tree |-> TheTree]
    /\ phase' = "done"
    /\ UNCHANGED <<envVars, fileVars, treeVars, ctxVars, scan_files, scan_errors,
                   detVars, scan, invocation, checkpoint, stores, verdict,
                   commands_file, scan_err_log>>

\* The invocations of run in one behaviour.
MaxInvocations == 2
\* The commands files an invocation may be given.
CommandsFiles == {"cmd1", "cmd2"}

\* An invocation that keeps the tree it was given at its start (main.py:209)
\* rather than the one read from the checkpoint.
LoadedFreshTree(data) ==
    [tree |-> [leaves |-> EmptyTree, duplicates |-> <<>>, paths |-> EmptyPaths,
               commands_file |-> data[2].commands_file],
     scan_err_log |-> data[3], results |-> data[4]]

\* main.py:211-215 -- load(TREE_FILE) yields the stored data in their order:
\* the first is dropped, then the tree, the log and the results.
Loaded(data) ==
    [tree |-> data[2], scan_err_log |-> data[3], results |-> data[4]]

\* main.py:198-217 -- a later invocation of run that does not scan: the
\* checkpoint is read and the tree is given the commands file of the
\* invocation.  The calls of the scan and their counters are left as the scan
\* left them: this invocation starts no call.
Load ==
    /\ phase = "done"
    /\ invocation < MaxInvocations
    /\ checkpoint # NoCheckpoint
    /\ invocation' = invocation + 1
    /\ scan' = FALSE
    /\ stores' = 0
    /\ acted' = NoAction
    /\ verdict' = Pending
    /\ LET l == Loaded(checkpoint)
       IN  /\ leaves' = l.tree.leaves
           /\ duplicates' = l.tree.duplicates
           /\ paths' = l.tree.paths
           /\ scan_err_log' = l.scan_err_log
           /\ results' = l.results
    /\ \E c \in CommandsFiles : commands_file' = c
    /\ phase' = "loaded"
    /\ UNCHANGED <<envVars, pc, loc, raised, queued, ctxVars, scan_files, scan_errors,
                   detVars, checkpoint>>

\* main.py:236-238 -- the results read from the checkpoint are counted.
Recount ==
    /\ phase = "loaded"
    /\ scan_files' = Cardinality(Sources)
    /\ scan_errors' = CountNone(results)
    /\ phase' = "counted"
    /\ UNCHANGED <<envVars, fileVars, treeVars, ctxVars, detVars, invVars>>

Step(f) ==
    \/ Scan(f)
    \/ Interrupt(f)
    \/ Acquire(f)
    \/ SkipPrint(f)
    \/ LeafA(f)
    \/ LeafB(f)
    \/ LeafC(f)
    \/ Walk(f)
    \/ DupLeaf(f)
    \/ DupAppend(f)
    \/ PathsCheck(f)
    \/ PathsNew(f)
    \/ PathsFiles(f)
    \/ PathsLatest(f)
    \/ PathsAppend(f)
    \/ PathsAssert(f)
    \/ Except(f)
    \/ ExceptMain(f)
    \/ Finally(f)
    \/ FinallyMain(f)

Next ==
    \/ \E f \in Sources : Step(f)
    \/ Collect
    \/ Store
    \/ Evaluate
    \/ Act
    \/ Load
    \/ Recount

Spec == Init /\ [][Next]_vars

(***************************************************************************)
(* The Tree alone: workers make create_leaf calls in any order, with any   *)
(* repetition, for the same key with the same or with another source.      *)
(***************************************************************************)
\* The number of create_leaf calls of one run of SpecLeaf.
MaxCalls == 3

\* The create_leaf calls tried: the symlink of a.nc in the version folder and
\* the "latest" symlink of its dataset, each from one of two sources, with and
\* without force.
LeafCalls ==
    { Call(k, src, "symlink", force) :
        k \in {VersionKey("d1", "a.nc"), LatestKey("d1")},
        src \in {RelFiles(1, "a.nc"), RelFiles(2, "a.nc")},
        force \in BOOLEAN }

InitLeaf ==
    /\ worker = "make"
    /\ cfg = [drs_version |-> 1, no_checksum |-> FALSE, upgrade_from_latest |-> FALSE,
              mode |-> "move", ignore_from_incoming |-> {}, ignore_from_latest |-> {}]
    /\ disk = [d \in Datasets |-> Fresh]
    /\ facets = [f \in Sources |-> "d1"]
    /\ use_pool = TRUE
    /\ dataset = NoDataset
    /\ Idle
    /\ inp = NoInput
    /\ out = NoOutcome

\* The worker of source f makes one of the calls.
CreateAny(f) ==
    /\ Len(queued["a.nc"]) + Len(queued["b.nc"]) < MaxCalls
    /\ \E c \in LeafCalls : Queue(f, c)
    /\ UNCHANGED <<envVars, pc, loc, raised, results, duplicates, paths, ctxVars,
                   runVars, detVars,
                   invVars>>

NextLeaf == \E f \in Sources : CreateAny(f)

SpecLeaf == InitLeaf /\ [][NextLeaf]_vars

(***************************************************************************)
(* Claims about the duplicate detection (checked under SpecDetect).        *)
(***************************************************************************)
Detected == out # NoOutcome
\* The detection made the comparison named s.
Made(s) == \E k \in DOMAIN out.steps : out.steps[k] = s
SameTrackingId ==
    inp.cur_tid # NoTrackingId /\ inp.cur_tid = inp.lat_tid
DifferentTrackingIds ==
    /\ inp.cur_tid # NoTrackingId
    /\ inp.lat_tid # NoTrackingId
    /\ inp.cur_tid # inp.lat_tid
SameSize == inp.cur_size = inp.lat_size
SameDigest == inp.cur_sum = inp.lat_sum

\* C1: when a latest version exists for the dataset, OlderUpgrade is raised
\* exactly when the version of the run is less than or equal to the latest
\* version, whether or not the latest version holds the incoming filename.
C1_OlderUpgradeIffNotNewer ==
    (Detected /\ inp.lat_v # Initial) =>
        (out.exc = "OlderUpgrade" <=> inp.cur_v <= inp.lat_v)

\* C1, the spec's example in Process.__call__: a newer version over an older
\* latest version that holds the file raises OlderUpgrade.
C1_NewerOverOlderRaises ==
    /\ worker = "make"
    /\ Detected
    /\ inp.exists
    /\ inp.lat_v < inp.cur_v
    /\ out.exc = "OlderUpgrade"

\* C2: with checksumming enabled and a version the version rule admits
\* (newer than the latest version, when the latest version holds the file),
\* the outcome of the detection of Process.__call__ follows the table:
\* no same-named latest file => not duplicate; same tracking ID, same size,
\* same digest => duplicate; same tracking ID, same size, different digest =>
\* UnchangedTrackingID; different tracking IDs => not duplicate, no error.
C2_DetectionTable ==
    ( /\ worker = "make"
      /\ Detected
      /\ ~inp.no_checksum
      /\ inp.exists => inp.lat_v < inp.cur_v ) =>
        /\ ~inp.exists => (out.exc = "none" /\ ~out.is_duplicate)
        /\ (inp.exists /\ SameTrackingId /\ SameSize /\ SameDigest)
              => (out.exc = "none" /\ out.is_duplicate)
        /\ (inp.exists /\ SameTrackingId /\ SameSize /\ ~SameDigest)
              => out.exc = "UnchangedTrackingID"
        /\ (inp.exists /\ DifferentTrackingIds)
              => (out.exc = "none" /\ ~out.is_duplicate)

\* C2, the row "same tracking ID, same size, same digest" for a newer version
\* over an older latest version: OlderUpgrade instead of "duplicate".
C2_DuplicateRowRaises ==
    /\ worker = "make"
    /\ Detected
    /\ ~inp.no_checksum
    /\ inp.exists
    /\ inp.lat_v < inp.cur_v
    /\ SameTrackingId /\ SameSize /\ SameDigest
    /\ out.exc = "OlderUpgrade"
    /\ ~out.is_duplicate

\* C3: a same-named latest file, the version check passed, the sizes read,
\* checksumming enabled, and the tracking identifier absent on at least one
\* side: the sizes are
\* compared, equal sizes lead to the digests being compared, equal size and
\* equal digest give "duplicate", and UnchangedTrackingID is not raised.
C3_AbsentTrackingIdGoesOn ==
    ( /\ worker = "make"
      /\ Detected
      /\ inp.exists
      /\ out.exc # "OlderUpgrade"
      /\ inp.cur_size # NoSuchFile
      /\ ~inp.no_checksum
      /\ (inp.cur_tid = NoTrackingId \/ inp.lat_tid = NoTrackingId) ) =>
        /\ Made("size")
        /\ SameSize => Made("digest")
        /\ (SameSize /\ SameDigest) => out.is_duplicate
        /\ out.exc # "UnchangedTrackingID"

\* C3, the incoming file without tracking identifier, the latest file with
\* one, equal sizes and digests: the detection stops at the tracking
\* identifiers and the file is no duplicate.
C3_OneSidedAbsenceStops ==
    /\ worker = "make"
    /\ Detected
    /\ inp.exists
    /\ ~inp.no_checksum
    /\ inp.cur_tid = NoTrackingId
    /\ inp.lat_tid # NoTrackingId
    /\ SameSize /\ SameDigest
    /\ out.exc = "none"
    /\ ~Made("size")
    /\ ~out.is_duplicate

\* C4: checksumming disabled, a same-named latest file of equal size, the
\* version check passed: no error is raised; equal tracking identifiers give
\* "duplicate"; without tracking identifiers the file is a duplicate too.
C4_NoChecksumEqualSize ==
    ( /\ worker = "make"
      /\ Detected
      /\ inp.exists
      /\ out.exc # "OlderUpgrade"
      /\ inp.no_checksum
      /\ SameSize ) =>
        /\ out.exc = "none"
        /\ SameTrackingId => out.is_duplicate
        /\ (inp.cur_tid = NoTrackingId /\ inp.lat_tid = NoTrackingId)
              => out.is_duplicate

\* C4, equal tracking identifiers and equal sizes with checksumming disabled:
\* UnchangedTrackingID.
C4_EqualSizeRaises ==
    /\ worker = "make"
    /\ Detected
    /\ inp.exists
    /\ inp.no_checksum
    /\ SameTrackingId /\ SameSize
    /\ out.exc = "UnchangedTrackingID"

\* C21: a same-named latest file whose size differs from the size of the
\* incoming file: tracking identifiers present and equal raise
\* UnchangedTrackingID, with checksumming enabled or disabled, and no digest
\* is compared; tracking identifiers absent on both sides give "not
\* duplicate" and no error.
C21_DifferentSizes ==
    ( /\ worker = "make"
      /\ Detected
      /\ inp.exists
      /\ inp.cur_size # NoSuchFile
      /\ ~SameSize ) =>
        /\ SameTrackingId =>
              (out.exc = "UnchangedTrackingID" /\ ~Made("digest"))
        /\ (inp.cur_tid = NoTrackingId /\ inp.lat_tid = NoTrackingId) =>
              (out.exc = "none" /\ ~out.is_duplicate)

\* C21, a newer version over an older latest version, equal tracking
\* identifiers and different sizes: OlderUpgrade is raised before the
\* tracking identifiers and the sizes are looked at.
C21_DifferentSizesNeverReached ==
    /\ worker = "make"
    /\ Detected
    /\ inp.exists
    /\ inp.lat_v < inp.cur_v
    /\ inp.cur_size # NoSuchFile
    /\ ~SameSize
    /\ SameTrackingId
    /\ out.exc = "OlderUpgrade"
    /\ ~Made("tid")
    /\ ~Made("size")

(***************************************************************************)
(* Claims about the scan (checked under Spec).                             *)
(***************************************************************************)
\* The create_leaf calls of f for its own file and for "latest", in order.
OwnCalls(f) ==
    SelectSeq(queued[f],
              LAMBDA c : c.key \in {VersionKey(facets[f], f), LatestKey(facets[f]),
                                    FilesKey(facets[f], f)})
\* The tree holds something of f: a call it queued, a duplicates entry, a record.
InTree(f) ==
    \/ queued[f] # <<>>
    \/ \E k \in DOMAIN duplicates : duplicates[k] = Incoming(f)
    \/ \E d \in Datasets : \E k \in DOMAIN paths[d].files :
          paths[d].files[k].src = Incoming(f)
NoInterrupt == \A f \in Sources : raised[f] # "KeyboardInterrupt"
OrdinaryErrors ==
    {"OlderUpgrade", "UnchangedTrackingID", "DuplicatedFile", "AssertionError",
     "Exception"}

\* C5: a source processed successfully and not a duplicate has queued, for its
\* own file, exactly three leaves in this order: the symlink of the version
\* folder pointing by relative path into files/, the dataset's "latest" symlink
\* pointing at the version folder name, the files/ leaf in the run's link mode
\* from the original source path.
C5_ThreeLeavesInOrder ==
    \A f \in Sources :
        (results[f] = "True" /\ ~loc[f].is_duplicate) =>
            OwnCalls(f) =
                << Call(VersionKey(facets[f], f), RelFiles(cfg.drs_version, f),
                        "symlink", worker = "make"),
                   Call(LatestKey(facets[f]), VersionName(cfg.drs_version),
                        "symlink", FALSE),
                   Call(FilesKey(facets[f], f), Incoming(f), cfg.mode, FALSE) >>

\* C5, in Process.__call__: the files/ leaf of a processed source has the
\* path in the version folder as its source, not the incoming file.
C5_FilesLeafFromCurrentPath ==
    \E f \in Sources :
        /\ worker = "make"
        /\ results[f] = "True"
        /\ ~loc[f].is_duplicate
        /\ Len(OwnCalls(f)) = 3
        /\ OwnCalls(f)[3].key = FilesKey(facets[f], f)
        /\ OwnCalls(f)[3].src = CurrentPath(facets[f], cfg.drs_version, f)

\* C6: a source whose call ended in a captured exception has left nothing in
\* the tree: no leaf, no duplicates entry, no paths record.
C6_ErrorLeavesTreeUnchanged ==
    \A f \in Sources :
        (results[f] = "None" /\ raised[f] # "none") => ~InTree(f)

\* C6, the failed assertion of make.py:264: the call ends in error with its
\* three leaves queued and its record in tree.paths.
C6_AssertionAfterLeaves ==
    \E f \in Sources :
        /\ results[f] = "None"
        /\ raised[f] = "AssertionError"
        /\ Len(queued[f]) = 3
        /\ \E k \in DOMAIN paths[facets[f]].files :
              paths[facets[f]].files[k].src = Incoming(f)

\* C7: in Process.__call__, every step that changes tree.duplicates,
\* tree.paths, the error counter, the progress counter or the message length
\* is a step of a call that holds the lock, and a leaf is inserted by a
\* create_leaf that has taken the mutex.
C7_MutationsUnderLock ==
    [][ (worker = "make" /\ phase = "scan") =>
          /\ leaves' # leaves => lock = Free
          /\ ( \/ duplicates' # duplicates
               \/ paths' # paths
               \/ errors' # errors
               \/ progress' # progress
               \/ msg_length' # msg_length )
             => \E f \in Sources : lock = f /\ pc'[f] # pc[f] ]_vars

\* C7, a call of Process.__call__ about to append to tree.duplicates or to
\* write tree.paths while it does not hold the lock.
C7_TreeWriteWithoutLock ==
    \E f \in Sources :
        /\ worker = "make"
        /\ pc[f] \in {"dup_append", "paths_new", "paths_files", "paths_latest",
                      "paths_append"}
        /\ lock # f

\* C8: an ordinary error of a call becomes the result None of that call and
\* never leaves it; only a KeyboardInterrupt leaves a call and aborts the
\* scan; after an ordinary error a source not yet started can still be
\* processed.
C8_OnlyCancellationEscapes ==
    /\ \A f \in Sources :
          (pc[f] = "done" /\ raised[f] \in OrdinaryErrors) => results[f] = "None"
    /\ \A f \in Sources : results[f] = "raise" => raised[f] = "KeyboardInterrupt"
    /\ phase = "aborted" => ~NoInterrupt
    /\ \A f \in Sources :
          (pc[f] = "start" /\ phase # "aborted" /\ Dispatched(f)) => ENABLED Scan(f)

\* C8, its case: one call has ended in an ordinary error and the other source
\* is still to be processed.
C8_ErrorBeforeNextSource ==
    \E f, g \in Sources :
        /\ f # g
        /\ results[f] = "None"
        /\ raised[f] \in OrdinaryErrors
        /\ pc[g] = "start"
        /\ phase = "scan"

\* A source that was skipped: on the ignore-from-incoming list, or with
\* facets that resolve to no directory structure, and no exception raised.
Skipped(f) == raised[f] = "none" /\ (Ignored(f) \/ facets[f] = Invalid)

\* C9: a skipped source is no error: it queues no leaf, the error counter
\* counts raised exceptions only, and the scan-error count of run counts no
\* skipped source.
C9_SkipIsNoError ==
    /\ \A f \in Sources : (pc[f] = "done" /\ Skipped(f)) => queued[f] = <<>>
    /\ errors <= Cardinality({f \in Sources : raised[f] # "none"})
    /\ phase = "counted" =>
          scan_errors = Cardinality({f \in Sources : results[f] = "None" /\ ~Skipped(f)})

\* C9, an ignored source in Process.__call__: no exception, the result None,
\* counted by run as a scan error.
C9_IgnoredCountedAsError ==
    \E f \in Sources :
        /\ worker = "make"
        /\ Ignored(f)
        /\ raised[f] = "none"
        /\ results[f] = "None"
        /\ errors = 0
        /\ phase = "counted"
        /\ scan_errors >= 1

\* C10: under upgrade-from-latest a source detected as a duplicate fails with
\* DuplicatedFile: nothing of it is in the tree, its result is None, it is
\* counted as an error, and a source not yet started can still be processed.
C10_DuplicateUnderUpgradeFails ==
    \A f \in Sources :
        /\ (cfg.upgrade_from_latest /\ loc[f].is_duplicate)
              => (raised[f] = "DuplicatedFile" /\ ~InTree(f))
        /\ raised[f] = "DuplicatedFile" =>
              /\ pc[f] = "done" => results[f] = "None"
              /\ (pc[f] = "done" /\ worker = "make") => errors >= 1
              /\ phase = "counted" => scan_errors >= 1
              /\ \A g \in Sources :
                    (pc[g] = "start" /\ phase # "aborted" /\ Dispatched(g))
                       => ENABLED Scan(g)

\* C10, its case: a duplicate under upgrade-from-latest has failed and the
\* other source was processed.
C10_DuplicateFailedOtherProcessed ==
    \E f, g \in Sources :
        /\ f # g
        /\ cfg.upgrade_from_latest
        /\ loc[f].is_duplicate
        /\ results[f] = "None"
        /\ results[g] = "True"

\* The number of entries of tree.duplicates for the incoming file of f.
DuplicateEntries(f) ==
    Cardinality({k \in DOMAIN duplicates : duplicates[k] = Incoming(f)})

\* C11: a source processed as a duplicate without upgrade-from-latest has
\* queued exactly one leaf, the symlink of the new version folder to the
\* target of the latest version's symlink of the same name, and the tree holds
\* it; it has queued no files/ leaf; its incoming path is in tree.duplicates
\* once if the link mode is 'move' and not at all otherwise.
C11_DuplicateLinkedToExistingTarget ==
    \A f \in Sources :
        (results[f] = "True" /\ loc[f].is_duplicate /\ ~cfg.upgrade_from_latest) =>
            /\ queued[f] = << Call(VersionKey(facets[f], f),
                                   RelFiles(disk[facets[f]].version, f),
                                   "symlink", FALSE) >>
            /\ VersionKey(facets[f], f) \in DOMAIN leaves
            /\ leaves[VersionKey(facets[f], f)] =
                  Leaf(RelFiles(disk[facets[f]].version, f), "symlink")
            /\ FilesKey(facets[f], f) \notin DOMAIN leaves
            /\ DuplicateEntries(f) = IF cfg.mode = "move" THEN 1 ELSE 0

\* C11, its case: in a run that moves files a duplicate was processed and its
\* incoming path is in tree.duplicates.
C11_DuplicateProcessedInMoveMode ==
    \E f \in Sources :
        /\ results[f] = "True"
        /\ loc[f].is_duplicate
        /\ ~cfg.upgrade_from_latest
        /\ cfg.mode = "move"
        /\ DuplicateEntries(f) = 1

\* The sources whose call has requested the "latest" leaf of dataset d.
LatestRequests(d) ==
    {f \in Sources : \E k \in DOMAIN queued[f] : queued[f][k].key = LatestKey(d)}
\* The leaves of the tree that are a "latest" leaf of dataset d.
LatestLeaves(d) ==
    {k \in DOMAIN leaves : k[1] = d /\ k[2] = "latest"}

\* C13: under every interleaving, once a call has requested the "latest" leaf
\* of a dataset, the tree holds exactly one "latest" leaf for the dataset, a
\* symlink whose source is the version folder name of the run.
C13_OneLatestLeaf ==
    \A d \in Datasets :
        /\ LatestRequests(d) # {} =>
              /\ LatestLeaves(d) = {LatestKey(d)}
              /\ leaves[LatestKey(d)] = Leaf(VersionName(cfg.drs_version), "symlink")
        /\ LatestRequests(d) = {} => LatestLeaves(d) = {}

\* C13, its case: both sources are files of one dataset and both calls have
\* requested its "latest" leaf.
C13_TwoRequestsOneLeaf ==
    \E d \in Datasets :
        /\ LatestRequests(d) = Sources
        /\ \A f \in Sources : results[f] = "True"
        /\ Cardinality(LatestLeaves(d)) = 1

\* The filenames of the latest version of dataset d that the claim wants
\* copied forward: not in the incoming batch, not on the ignore-from-latest list.
Unchanged(d) ==
    {n \in disk[d].files : n \notin Sources /\ n \notin cfg.ignore_from_latest}
\* A source of dataset d was processed into the new version.
Upgraded(d) ==
    \E f \in Sources : facets[f] = d /\ results[f] = "True"

OwnLeafQueued(f) ==
    \E k \in DOMAIN queued[f] :
        queued[f][k].key = VersionKey(facets[f], f)

\* C22: under upgrade-from-latest, from the moment the call of a source has
\* queued the version-folder leaf of its own file, and so at the end of the
\* scan, that leaf has the relative source into files/ of the new version,
\* whatever copy-forward leaf another call queued before or queues after.
C22_OwnVersionLeafWins ==
    \A f \in Sources :
        (cfg.upgrade_from_latest /\ OwnLeafQueued(f)) =>
            /\ VersionKey(facets[f], f) \in DOMAIN leaves
            /\ leaves[VersionKey(facets[f], f)] =
                  Leaf(RelFiles(cfg.drs_version, f), "symlink")

\* C22, in process of main.py: both sources were processed under
\* upgrade-from-latest into a version newer than the latest one, a.nc queued
\* its own leaf, and the version folder links a.nc to the files folder of the
\* latest version: the leaf b.nc copied forward was queued first.
C22_CopyForwardLeafKept ==
    /\ worker = "main"
    /\ cfg.upgrade_from_latest
    /\ phase = "counted"
    /\ \A f \in Sources : facets[f] = "d1" /\ results[f] = "True"
    /\ OwnLeafQueued("a.nc")
    /\ cfg.drs_version > disk["d1"].version
    /\ leaves[VersionKey("d1", "a.nc")] =
          Leaf(RelFiles(disk["d1"].version, "a.nc"), "symlink")

\* The sources whose call has returned, is running, has raised an exception.
Finished == {f \in Sources : pc[f] = "done"}
InFlight == {f \in Sources : pc[f] \notin {"start", "done"}}
Failed == {f \in Sources : raised[f] # "none"}

\* C23: when every call has returned and none was interrupted, the progress
\* counter is the number of sources and, in Process.__call__, which has the
\* error counter, the error counter is the number of sources whose call
\* raised an exception; at every moment the progress counter is the number of
\* calls that have returned (one increment per call, whatever its outcome),
\* the error counter is the number of calls that have left their except
\* clause, and it is at most the progress counter plus the calls in flight.
C23_CountersExact ==
    /\ (Joined /\ NoInterrupt) =>
          /\ progress = Cardinality(Sources)
          /\ worker = "make" => errors = Cardinality(Failed)
    /\ progress = Cardinality(Finished)
    /\ worker = "make" =>
          /\ errors = Cardinality({f \in Failed :
                          pc[f] \in {"finally", "finally_locked", "done"}})
          /\ errors <= progress + Cardinality(InFlight)

\* C23, its case in Process.__call__: every call has returned without
\* interrupt, b.nc was skipped as ignored and the call of a.nc raised an
\* exception: two increments of the progress counter, one of the error counter.
C23_SkipAndErrorCounted ==
    /\ worker = "make"
    /\ use_pool
    /\ Joined
    /\ NoInterrupt
    /\ Ignored("b.nc")
    /\ raised["a.nc"] \notin {"none", "KeyboardInterrupt"}
    /\ progress = 2
    /\ errors = 1

\* The records tree.paths holds under dataset key d for source f.
Records(d, f) ==
    {k \in DOMAIN paths[d].files : paths[d].files[k].src = Incoming(f)}

\* C24: when every call has returned, tree.paths holds under each dataset key
\* one record for each source of that dataset whose call returned True, and
\* no record for any other source.
C24_OneRecordPerSuccess ==
    Joined =>
        \A d \in Datasets : \A f \in Sources :
            Cardinality(Records(d, f)) =
                IF facets[f] = d /\ results[f] = "True" THEN 1 ELSE 0

\* C24, two calls recording the first files of one dataset at the same time:
\* both found the key absent, both returned True, and tree.paths holds the
\* record of b.nc only.
C24_FirstRecordLost ==
    /\ use_pool
    /\ Joined
    /\ \A f \in Sources : facets[f] = "d1" /\ results[f] = "True"
    /\ Records("d1", "a.nc") = {}
    /\ Cardinality(Records("d1", "b.nc")) = 1

\* The call of f has looked for the latest version of its dataset (an
\* interrupt may have stopped the call before).
Observed(f) ==
    /\ pc[f] # "start"
    /\ ~Ignored(f)
    /\ facets[f] # Invalid
    /\ raised[f] # "KeyboardInterrupt"

\* C25: the assertion on the recorded latest version fails in no call, and
\* two sources of one dataset whose calls have looked for the latest version
\* hold the same latest_version.
C25_SameLatestObserved ==
    /\ \A f \in Sources : raised[f] # "AssertionError"
    /\ \A f, g \in Sources :
          (Observed(f) /\ Observed(g) /\ facets[f] = facets[g]) =>
              loc[f].latest_version = loc[g].latest_version

\* C25, in Process.__call__: the latest version of d1 holds a.nc and not
\* b.nc; a.nc recorded that version, b.nc observed 'Initial' and its
\* assertion failed.
C25_AssertionFailed ==
    /\ worker = "make"
    /\ "a.nc" \in disk["d1"].files
    /\ "b.nc" \notin disk["d1"].files
    /\ \A f \in Sources : facets[f] = "d1"
    /\ results["a.nc"] = "True"
    /\ loc["a.nc"].latest_version = disk["d1"].version
    /\ paths["d1"].latest = disk["d1"].version
    /\ loc["b.nc"].latest_version = Initial
    /\ raised["b.nc"] = "AssertionError"

\* The leaves of the tree in the new version folder of dataset d.
VersionLeaves(d) ==
    {k \in DOMAIN leaves : k[1] = d /\ k[2] = "version"}

\* C26: when every call has returned and none was interrupted, a dataset
\* with a leaf in its new version folder has a "latest" leaf, a symlink whose
\* source is the name of the new version folder.
C26_LatestLeafWithVersionLeaves ==
    (Joined /\ NoInterrupt) =>
        \A d \in Datasets :
            VersionLeaves(d) # {} =>
                /\ LatestKey(d) \in DOMAIN leaves
                /\ leaves[LatestKey(d)] =
                      Leaf(VersionName(cfg.drs_version), "symlink")

\* C26, every incoming file a duplicate of the latest version, the version of
\* the run newer: both sources were processed, each has its symlink in the new
\* version folder, and the tree has no "latest" leaf for the dataset.
C26_AllDuplicatesNoLatest ==
    /\ Joined
    /\ NoInterrupt
    /\ cfg.drs_version > disk["d1"].version
    /\ \A f \in Sources :
          /\ facets[f] = "d1"
          /\ results[f] = "True"
          /\ loc[f].is_duplicate
    /\ VersionLeaves("d1") = {VersionKey("d1", f) : f \in Sources}
    /\ LatestKey("d1") \notin DOMAIN leaves

(***************************************************************************)
(* Claims about run: the checkpoint, the gate, the action (under Spec).    *)
(***************************************************************************)
\* Every source has produced its result.
AllResults ==
    \A f \in Sources : pc[f] = "done" /\ results[f] # Pending

\* C15: in one invocation the checkpoint is written at most once, and once
\* when run has passed the store; the write is a step of run and of no
\* worker, made when every source has produced its result and before the
\* action has run; the action runs on a written checkpoint only.
C15_CheckpointOnceBeforeAction ==
    /\ [](stores <= 1)
    /\ [](phase \in {"stored", "action", "done"} => stores = 1)
    /\ [](acted.ran => stores = 1)
    /\ [][ stores' = stores + 1 =>
             /\ AllResults
             /\ pc' = pc
             /\ ~acted.ran /\ ~acted'.ran
             /\ checkpoint' = StoredData ]_vars
    /\ [][ acted' # acted /\ acted'.ran => stores = 1 /\ checkpoint' = checkpoint ]_vars

\* C15, its case: a scanning invocation has run its action, with the
\* checkpoint written once.
C15_ScannedStoredActed ==
    /\ scan
    /\ phase = "done"
    /\ acted.ran
    /\ stores = 1
    /\ checkpoint = StoredData

\* C16: the action runs only when evaluate has accepted the results; when it
\* has rejected them the invocation ends without the action having run, with
\* the checkpoint written and holding the tree, the log and the results, and
\* a later invocation can read it.
C16_ActionGatedByEvaluate ==
    /\ acted.ran => verdict = "accept"
    /\ phase = "action" => verdict = "accept"
    /\ (phase = "done" /\ verdict = "reject") =>
          /\ ~acted.ran
          /\ stores = 1
          /\ checkpoint = StoredData
          /\ invocation < MaxInvocations => ENABLED Load

\* C16, its case: a scan with an error has ended, evaluate has rejected its
\* results, the checkpoint is written and the action has not run.
C16_RejectedAfterStore ==
    /\ scan
    /\ phase = "done"
    /\ verdict = "reject"
    /\ scan_errors >= 1
    /\ checkpoint # NoCheckpoint
    /\ ~acted.ran

\* The tree plan: what the tree holds apart from its commands file.
Plan(tree) == [leaves |-> tree.leaves, duplicates |-> tree.duplicates,
               paths |-> tree.paths]

\* C18: an invocation that does not scan starts no call of process; what it
\* reads from the checkpoint (second item the tree, third the log, fourth the
\* results) is what the scanning invocation held when it stored them; the
\* tree plan, the log and the results stay those of the checkpoint for the
\* whole invocation, also after it has stored its own checkpoint; and the
\* action runs on the read tree with the commands file of the invocation.
C18_ActWithoutRescan ==
    /\ [](~scan => /\ checkpoint # NoCheckpoint
                   /\ Plan(TheTree) = Plan(checkpoint[2])
                   /\ scan_err_log = checkpoint[3]
                   /\ results = checkpoint[4])
    /\ [](( ~scan /\ acted.ran) =>
             acted.tree = [checkpoint[2] EXCEPT !.commands_file = commands_file])
    /\ [][ ~scan' => (pc' = pc /\ loc' = loc /\ queued' = queued) ]_vars
    /\ [][ invocation' # invocation =>
             /\ ~scan'
             /\ Plan(TheTree)' = Plan(TheTree)
             /\ scan_err_log' = scan_err_log
             /\ results' = results
             /\ checkpoint' = checkpoint ]_vars
    /\ [][ (~scan /\ ~scan') =>
             /\ Plan(checkpoint'[2]) = Plan(checkpoint[2])
             /\ checkpoint'[3] = checkpoint[3]
             /\ checkpoint'[4] = checkpoint[4] ]_vars

\* C18: the second invocation did not scan, took another commands file, read
\* a tree with a leaf and a duplicate, stored its checkpoint and ran the
\* action.
C18_ActedOnRestoredTree ==
    /\ ~scan
    /\ invocation = 2
    /\ commands_file = "cmd2"
    /\ stores = 1
    /\ acted.ran
    /\ acted.tree.leaves # EmptyTree
    /\ acted.tree.duplicates # <<>>
    /\ checkpoint[2].commands_file = "cmd2"

\* A KeyboardInterrupt has left the call of a source.
Cancelled == \E f \in Sources : results[f] = "raise"

CallsMade ==
    UNION {{queued[f][k] : k \in DOMAIN queued[f]} : f \in Sources}
\* The calls made for one key all have the same source and mode.
SameSourcePerKey ==
    \A c1, c2 \in CallsMade :
        c1.key = c2.key => (c1.src = c2.src /\ c1.mode = c2.mode)
\* The tree that holds one leaf per key of a set of calls of one source per key.
TreeOf(calls) ==
    [k \in {c.key : c \in calls} |->
        LET c == CHOOSE c \in calls : c.key = k IN Leaf(c.src, c.mode)]
\* The call of the step: the one a worker has appended to its calls.
NewCall ==
    LET f == CHOOSE f \in Sources : queued'[f] # queued[f]
    IN  queued'[f][Len(queued'[f])]

\* C12: when the calls made for each key have the same source and mode, the
\* tree holds one leaf per key with that source, whatever the order of the
\* calls and however often each was made; a call for a key the tree holds
\* changes nothing when it gives the same source or when force is false, and
\* with another source and force true it replaces the leaf and nothing else.
C12_CreateLeafIdempotent ==
    /\ [](SameSourcePerKey =>
            leaves = TreeOf(CallsMade))
    /\ [][ (queued' # queued /\ NewCall.key \in DOMAIN leaves) =>
             IF leaves[NewCall.key] = Leaf(NewCall.src, NewCall.mode) \/ ~NewCall.force
             THEN leaves' = leaves
             ELSE leaves' = [leaves EXCEPT ![NewCall.key] =
                                Leaf(NewCall.src, NewCall.mode)] ]_vars

\* C12, its case: the two workers have called for the same key, one of them
\* twice with the same source, one with another source and force false, and
\* the first leaf is in the tree.
C12_RepeatedAndRejected ==
    \E c, e \in LeafCalls :
        /\ c.key = e.key /\ c.src # e.src /\ ~e.force
        /\ queued["a.nc"] = <<c, c>>
        /\ queued["b.nc"] = <<e>>
        /\ leaves[c.key] = Leaf(c.src, c.mode)

(***************************************************************************)
(* The removal of a version from a dataset address.  A dataset address is  *)
(* built by upgrades and taken apart by removals; links maps each version  *)
(* folder to the symlinks in it (filename to target under files/), files   *)
(* is the content under files/, latest is the version the "latest" symlink *)
(* points to (Initial when there is no such symlink).                      *)
(***************************************************************************)
\* The content version v brought for the file named f: files/d<v>/<f>.
Target(v, f) == <<v, f>>

\* The version folders of the dataset address.
VersionsOf(d) == DOMAIN d.links

\* What an upgrade does with a filename: new content, the content of the
\* latest version again (a duplicate, or a file copied forward), or no file.
UpgradeKinds(d) ==
    { k \in [Sources -> {"new", "same", "absent"}] :
        /\ \E f \in Sources : k[f] # "absent"
        /\ \A f \in Sources :
             k[f] = "same" => (d.latest # Initial /\ f \in DOMAIN d.links[d.latest]) }

\* The symlinks of the version folder an upgrade to v makes.
UpgradeLinks(d, v, k) ==
    [f \in {g \in Sources : k[g] # "absent"} |->
        IF k[f] = "new" THEN Target(v, f) ELSE d.links[d.latest][f]]

\* An upgrade to version v, newer than the latest version.
Upgrade(v, k) ==
    /\ v > dataset.latest
    /\ k \in UpgradeKinds(dataset)
    /\ dataset' =
         [links |-> [u \in VersionsOf(dataset) \cup {v} |->
                        IF u = v THEN UpgradeLinks(dataset, v, k)
                        ELSE dataset.links[u]],
          files |-> dataset.files \cup
                      {Target(v, f) : f \in {g \in Sources : k[g] = "new"}},
          latest |-> v,
          removed |-> Initial]

\* The previous version (the greatest below v) and the next one (the least
\* above v), those that exist.
Neighbours(vs, v) ==
    {u \in vs : u < v /\ \A w \in vs : w < v => w <= u}
      \cup {u \in vs : u > v /\ \A w \in vs : w > v => u <= w}

\* A removal that looks at the previous version only.
ReferencedByPrevious(d, v, f) ==
    \E u \in {w \in Neighbours(VersionsOf(d), v) : w < v} :
        f \in DOMAIN d.links[u] /\ d.links[u][f] = d.links[v][f]

\* A neighbour of v has a file of the same name resolving to the same target.
Referenced(d, v, f) ==
    \E u \in Neighbours(VersionsOf(d), v) :
        f \in DOMAIN d.links[u] /\ d.links[u][f] = d.links[v][f]

\* A removal that leaves the "latest" symlink as it is.
LatestKept(d, v) == d.latest

\* Where "latest" points once v is removed: unchanged if it pointed
\* elsewhere, else to the neighbour of v, or nowhere when no version remains.
LatestAfter(d, v) ==
    IF d.latest # v THEN d.latest
    ELSE IF Neighbours(VersionsOf(d), v) = {} THEN Initial
    ELSE CHOOSE u \in Neighbours(VersionsOf(d), v) :
            \A w \in Neighbours(VersionsOf(d), v) : w <= u

\* The removal of version v: every symlink of the version folder is
\* unlinked, its target is deleted unless a neighbour references it, the
\* version folder is deleted and "latest" is repointed.
Removed(d, v) ==
    [links |-> [u \in VersionsOf(d) \ {v} |-> d.links[u]],
     files |-> d.files \ {d.links[v][f] :
                             f \in {g \in DOMAIN d.links[v] : ~Referenced(d, v, g)}},
     latest |-> LatestAfter(d, v),
     removed |-> v]

Remove(v) ==
    /\ v \in VersionsOf(dataset)
    /\ dataset' = Removed(dataset, v)

InitRemove ==
    /\ worker = "make"
    /\ cfg = [drs_version |-> 1, no_checksum |-> FALSE, upgrade_from_latest |-> FALSE,
              mode |-> "move", ignore_from_incoming |-> {}, ignore_from_latest |-> {}]
    /\ disk = [d \in Datasets |-> Fresh]
    /\ facets = [f \in Sources |-> "d1"]
    /\ use_pool = TRUE
    /\ dataset = NoDataset
    /\ Idle
    /\ inp = NoInput
    /\ out = NoOutcome

UpgradeAny ==
    /\ \E v \in Versions : \E k \in [Sources -> {"new", "same", "absent"}] : Upgrade(v, k)
    /\ UNCHANGED <<worker, cfg, disk, facets, use_pool, fileVars, treeVars, ctxVars,
                   runVars, detVars, invVars>>

RemoveAny ==
    /\ \E v \in Versions : Remove(v)
    /\ UNCHANGED <<worker, cfg, disk, facets, use_pool, fileVars, treeVars, ctxVars,
                   runVars, detVars, invVars>>

NextRemove == UpgradeAny \/ RemoveAny

SpecRemove == InitRemove /\ [][NextRemove]_vars

(***************************************************************************)
(* Claims about the removal of a version (checked under SpecRemove).       *)
(***************************************************************************)
\* The versions a step removes.
Gone == VersionsOf(dataset) \ VersionsOf(dataset')

\* C19: a removal of version v deletes the target of a file of v if and only
\* if neither the previous nor the next version has a file of that name
\* resolving to that target; it deletes no other content, deletes the folder
\* of v with every symlink in it, leaves the symlinks of the other versions as
\* they are, and a neighbour sharing the target still resolves to it.
C19_RemovalReferenceCounting ==
    [][ \A v \in Gone :
          /\ \A u \in VersionsOf(dataset') : dataset'.links[u] = dataset.links[u]
          /\ VersionsOf(dataset') = VersionsOf(dataset) \ {v}
          /\ dataset'.files \subseteq dataset.files
          /\ dataset.files \ dataset'.files \subseteq
                {dataset.links[v][f] : f \in DOMAIN dataset.links[v]}
          /\ \A f \in DOMAIN dataset.links[v] :
               LET t == dataset.links[v][f]
                   sharing == {u \in Neighbours(VersionsOf(dataset), v) :
                                 f \in DOMAIN dataset.links[u] /\ dataset.links[u][f] = t}
               IN  /\ t \in dataset.files
                   /\ (t \notin dataset'.files) <=> (sharing = {})
                   /\ \A u \in sharing : dataset'.links[u][f] \in dataset'.files
      ]_vars

\* C19: the last step removed version 2 from versions 1, 2, 3 whose a.nc all
\* resolved to the content of version 1: only the symlink of version 2 is
\* gone, and a.nc still resolves through versions 1 and 3.
C19_MiddleVersionRemoved ==
    /\ dataset.removed = 2
    /\ VersionsOf(dataset) = {1, 3}
    /\ dataset.links[1] = [f \in {"a.nc"} |-> Target(1, "a.nc")]
    /\ dataset.links[3] = [f \in {"a.nc"} |-> Target(1, "a.nc")]
    /\ dataset.files = {Target(1, "a.nc")}

\* C20: every symlink of a version folder points to existing content, and
\* "latest" points to an existing version folder, or is absent exactly when
\* there is no version; a removal of the version "latest" points to leaves
\* "latest" on a neighbour of that version, or absent when no version remains,
\* and a removal of another version leaves "latest" as it is.
C20_NoDanglingSymlink ==
    /\ [](\A v \in VersionsOf(dataset) : \A f \in DOMAIN dataset.links[v] :
             dataset.links[v][f] \in dataset.files)
    /\ [](dataset.latest = Initial <=> VersionsOf(dataset) = {})
    /\ [](dataset.latest # Initial => dataset.latest \in VersionsOf(dataset))
    /\ [][ \A v \in Gone :
             IF dataset.latest # v THEN dataset'.latest = dataset.latest
             ELSE IF VersionsOf(dataset') = {} THEN dataset'.latest = Initial
             ELSE dataset'.latest \in Neighbours(VersionsOf(dataset), v) ]_vars

\* C20: the last step removed version 3, which "latest" pointed to and whose
\* b.nc shared the content of version 2: "latest" points to version 2 and
\* b.nc of version 2 resolves.
C20_LatestRepointed ==
    /\ dataset.removed = 3
    /\ dataset.latest = 2
    /\ VersionsOf(dataset) = {1, 2}
    /\ "b.nc" \in DOMAIN dataset.links[2]
    /\ dataset.links[2]["b.nc"] = Target(2, "b.nc")
    /\ Target(2, "b.nc") \in dataset.files
    /\ Target(3, "a.nc") \notin dataset.files

====
